---- MODULE Spec2Model ----
(***************************************************************************)
(* Model of the F1 MCP server's caching API gateway (F1ApiClient): the     *)
(* axios upstream client with its error normalisation, the NodeCache-backed *)
(* makeRequest sequence, healthCheck, clearCache and getCacheStats; of the  *)
(* tool handlers that call the gateway; and of the start-up and the cron    *)
(* job of the F1MCPServer process.                                          *)
(*                                                                          *)
(* Strings that the code inspects character by character (endpoint paths,   *)
(* which getCacheTTL searches with String.includes) are sequences of        *)
(* one-character strings.  Time is Date.now() in whole seconds; NodeCache   *)
(* stores the expiry instant t = now + ttl and treats an entry as expired   *)
(* when t < now.                                                            *)
(***************************************************************************)
EXTENDS Integers, Sequences, FiniteSets, TLC

\* ------------------------------------------------------------------ bounds
NumProcs == 2
MaxCalls == 2
MaxTicks == 2

\* ------------------------------------------------------- string constants
sCurrent == <<"c", "u", "r", "r", "e", "n", "t">>
sStandings == <<"s", "t", "a", "n", "d", "i", "n", "g", "s">>
sResults == <<"r", "e", "s", "u", "l", "t", "s">>
sDrivers == <<"d", "r", "i", "v", "e", "r", "s">>
sConstructors == <<"c", "o", "n", "s", "t", "r", "u", "c", "t", "o", "r", "s">>
sJson == <<".", "j", "s", "o", "n">>
sSlash == <<"/">>
sSeasonsJson == <<"/", "s", "e", "a", "s", "o", "n", "s", ".", "j", "s", "o", "n">>
sCurrentJson == <<"/", "c", "u", "r", "r", "e", "n", "t", ".", "j", "s", "o", "n">>
sCurrentLast == <<"/", "c", "u", "r", "r", "e", "n", "t", "/", "l", "a", "s", "t", ".", "j", "s", "o", "n">>
sCurrentNext == <<"/", "c", "u", "r", "r", "e", "n", "t", "/", "n", "e", "x", "t", ".", "j", "s", "o", "n">>
sDriversJson == <<"/", "d", "r", "i", "v", "e", "r", "s", ".", "j", "s", "o", "n">>
sDriversSeg == <<"/", "d", "r", "i", "v", "e", "r", "s", "/">>
sConstructorsJson == <<"/", "c", "o", "n", "s", "t", "r", "u", "c", "t", "o", "r", "s", ".", "j", "s", "o", "n">>
sConstructorsSeg == <<"/", "c", "o", "n", "s", "t", "r", "u", "c", "t", "o", "r", "s", "/">>
sResultsJson == <<"/", "r", "e", "s", "u", "l", "t", "s", ".", "j", "s", "o", "n">>
sQualifyingJson == <<"/", "q", "u", "a", "l", "i", "f", "y", "i", "n", "g", ".", "j", "s", "o", "n">>
sDriverStandingsJson == <<"/", "d", "r", "i", "v", "e", "r", "S", "t", "a", "n", "d", "i", "n", "g", "s", ".", "j", "s", "o", "n">>
sConstructorStandingsJson == <<"/", "c", "o", "n", "s", "t", "r", "u", "c", "t", "o", "r", "S", "t", "a", "n", "d", "i", "n", "g", "s", ".", "j", "s", "o", "n">>

\* parameter values a caller can pass
s2024 == <<"2", "0", "2", "4">>
sMax == <<"m", "a", "x">>
sFerrari == <<"f", "e", "r", "r", "a", "r", "i">>
sSeasonWithPath == <<"2", "0", "2", "4", "/", "d", "r", "i", "v", "e", "r", "s", "/", "x">>
sIdWithPath == <<"x", "/", "d", "r", "i", "v", "e", "r", "s", "/", "m", "a", "x">>
sUndefinedText == <<"u", "n", "d", "e", "f", "i", "n", "e", "d">>
\* new Date().getFullYear().toString()
sThisYear == <<"2", "0", "2", "6">>

\* Bodies, messages and codes are plain strings; Undefined stands for
\* JavaScript's undefined (a cache miss, an absent field).  "" is the empty string.
Undefined == "undefined"

\* `if (x)` / `x || d` on such a value: undefined and "" are falsy
Truthy(x) == x \notin {Undefined, ""}

\* arguments of the gateway operations: a string, a number or undefined (omitted)
Str(s) == [t |-> "str", s |-> s, n |-> 0]
Num(n) == [t |-> "num", s |-> <<>>, n |-> n]
Undef == [t |-> "undef", s |-> <<>>, n |-> 0]

\* String.prototype.includes: case-sensitive substring search
Includes(hay, needle) ==
  \E i \in 0..(Len(hay) - Len(needle)) : SubSeq(hay, i + 1, i + Len(needle)) = needle

\* decimal rendering of a number inside a template literal
Digit(d) == <<"0", "1", "2", "3", "4", "5", "6", "7", "8", "9">>[d + 1]
NumToStr(n) == IF n < 10 THEN <<Digit(n)>> ELSE <<Digit(n \div 10), Digit(n % 10)>>

\* `${x}` for a string (kept), a number (decimal) and undefined ("undefined")
Interp(x) ==
  CASE x.t = "str" -> x.s
    [] x.t = "num" -> NumToStr(x.n)
    [] x.t = "undef" -> sUndefinedText

\* default parameter value: season = 'current' applies when the argument is undefined
DefaultCurrent(season) == IF season.t = "undef" THEN Str(sCurrent) ELSE season

\* ------------------------------------------------------ gateway operations
Ops == {"getSeasons", "getCurrentSeason", "getRaces", "getRace", "getCurrentRace",
        "getNextRace", "getDrivers", "getDriver", "getConstructors", "getConstructor",
        "getRaceResults", "getQualifyingResults", "getDriverStandings",
        "getConstructorStandings"}

\* the endpoint each gateway operation hands to makeRequest
Endpoint(r) ==
  CASE r.op = "getSeasons" -> sSeasonsJson
    [] r.op = "getCurrentSeason" -> sCurrentJson
    [] r.op = "getRaces" -> sSlash \o Interp(DefaultCurrent(r.season)) \o sJson
    [] r.op = "getRace" -> sSlash \o Interp(r.season) \o sSlash \o Interp(r.round) \o sJson
    [] r.op = "getCurrentRace" -> sCurrentLast
    [] r.op = "getNextRace" -> sCurrentNext
    [] r.op = "getDrivers" -> sSlash \o Interp(DefaultCurrent(r.season)) \o sDriversJson
    [] r.op = "getDriver" ->
         sSlash \o Interp(DefaultCurrent(r.season)) \o sDriversSeg \o Interp(r.id) \o sJson
    [] r.op = "getConstructors" ->
         sSlash \o Interp(DefaultCurrent(r.season)) \o sConstructorsJson
    [] r.op = "getConstructor" ->
         sSlash \o Interp(DefaultCurrent(r.season)) \o sConstructorsSeg \o Interp(r.id) \o sJson
    [] r.op = "getRaceResults" ->
         sSlash \o Interp(r.season) \o sSlash \o Interp(r.round) \o sResultsJson
    [] r.op = "getQualifyingResults" ->
         sSlash \o Interp(r.season) \o sSlash \o Interp(r.round) \o sQualifyingJson
    [] r.op = "getDriverStandings" ->
         sSlash \o Interp(DefaultCurrent(r.season)) \o sDriverStandingsJson
    [] r.op = "getConstructorStandings" ->
         sSlash \o Interp(DefaultCurrent(r.season)) \o sConstructorStandingsJson

\* makeRequest: const cacheKey = endpoint
CacheKey(endpoint) == endpoint

\* `!x` on an argument: undefined, 0 and '' are falsy
FalsyArg(x) ==
  \/ x.t = "undef"
  \/ x.t = "num" /\ x.n = 0
  \/ x.t = "str" /\ x.s = <<>>
\* `x || d` on arguments
OrArg(x, d) == IF FalsyArg(x) THEN d ELSE x

\* What the bodies the upstream sends hold under MRData: "doc1" has the
\* operation's table with the list "list1", season 2024, round 1 and total
\* "30"; "doc2" has the list "list2" and nothing else; the empty body has no
\* MRData at all.
DocList(body) ==
  CASE body = "doc1" -> "list1"
    [] body = "doc2" -> "list2"
    [] OTHER -> Undefined
DocSeason(body) == IF body = "doc1" THEN Str(s2024) ELSE Undef
DocRound(body) == IF body = "doc1" THEN Str(<<"1">>) ELSE Undef
DocTotal(body) == IF body = "doc1" THEN "30" ELSE Undefined

\* What a gateway operation hands back to its caller: nothing (it threw), or
\* the object it builds from the body makeRequest returned.
NoReturn ==
  [t |-> "none", body |-> Undefined, success |-> FALSE, data |-> Undefined,
   season |-> Undef, round |-> Undef, id |-> Undef, total |-> Undefined]
\* the return statement of each operation: { success: true, data: <the list
\* under MRData> || [], ... }
Wrapper(r, data) ==
  LET list == IF Truthy(DocList(data)) THEN DocList(data) ELSE "[]"
      obj == [NoReturn EXCEPT !.t = "object", !.success = TRUE, !.data = list]
  IN CASE r.op = "getSeasons" ->
            [obj EXCEPT !.total = IF Truthy(DocTotal(data)) THEN DocTotal(data) ELSE "0"]
       [] r.op = "getCurrentSeason" ->
            [obj EXCEPT !.season = OrArg(DocSeason(data), Str(sThisYear))]
       [] r.op \in {"getRaces", "getDrivers", "getConstructors", "getDriverStandings",
                    "getConstructorStandings"} ->
            [obj EXCEPT !.season = OrArg(DocSeason(data), DefaultCurrent(r.season))]
       [] r.op \in {"getRace", "getRaceResults", "getQualifyingResults"} ->
            [obj EXCEPT !.season = OrArg(DocSeason(data), r.season),
                        !.round = OrArg(DocRound(data), r.round)]
       [] r.op \in {"getCurrentRace", "getNextRace"} ->
            [obj EXCEPT !.season = OrArg(DocSeason(data), Str(sCurrent))]
       [] r.op \in {"getDriver", "getConstructor"} ->
            [obj EXCEPT !.season = OrArg(DocSeason(data), DefaultCurrent(r.season)),
                        !.id = r.id]

\* getCacheTTL testing 'drivers'/'constructors' before 'current'
getCacheTTLDriversFirst(endpoint) ==
  IF Includes(endpoint, sDrivers) \/ Includes(endpoint, sConstructors) THEN 3600
  ELSE IF Includes(endpoint, sCurrent) THEN 60
  ELSE IF Includes(endpoint, sStandings) \/ Includes(endpoint, sResults) THEN 300
  ELSE 1800

getCacheTTL(endpoint) ==
  IF Includes(endpoint, sCurrent) THEN 60
  ELSE IF Includes(endpoint, sStandings) \/ Includes(endpoint, sResults) THEN 300
  ELSE IF Includes(endpoint, sDrivers) \/ Includes(endpoint, sConstructors) THEN 3600
  ELSE 1800

\* --------------------------------------------------------- upstream client
\* What axios rejects with: error.response (status, body's error.message and
\* error.code), error.request, error.message, error.code.
HttpError(status, bodyMessage, bodyCode) ==
  [hasResponse |-> TRUE, status |-> Num(status), bodyMessage |-> bodyMessage,
   bodyCode |-> bodyCode, hasRequest |-> TRUE,
   message |-> "Request failed with status code", code |-> "ERR_BAD_RESPONSE"]
TimeoutError ==
  [hasResponse |-> FALSE, status |-> Undef, bodyMessage |-> Undefined,
   bodyCode |-> Undefined, hasRequest |-> TRUE,
   message |-> "timeout of 10000ms exceeded", code |-> "ECONNABORTED"]
RefusedError ==
  [hasResponse |-> FALSE, status |-> Undef, bodyMessage |-> Undefined,
   bodyCode |-> Undefined, hasRequest |-> TRUE,
   message |-> "connect ECONNREFUSED", code |-> "ECONNREFUSED"]
SetupError ==
  [hasResponse |-> FALSE, status |-> Undef, bodyMessage |-> Undefined,
   bodyCode |-> Undefined, hasRequest |-> FALSE,
   message |-> "Invalid URL", code |-> "ERR_INVALID_URL"]

\* formatError testing error.request before error.response
formatErrorRequestFirst(error) ==
  IF error.hasRequest THEN
    [message |-> "Jolpica F1 API service unavailable", status |-> Undef,
     code |-> "NETWORK_ERROR"]
  ELSE IF error.hasResponse THEN
    [message |-> IF Truthy(error.bodyMessage) THEN error.bodyMessage
                 ELSE "F1 API request failed",
     status |-> error.status,
     code |-> IF Truthy(error.bodyCode) THEN error.bodyCode ELSE "API_ERROR"]
  ELSE
    [message |-> error.message, status |-> error.status, code |-> error.code]

formatError(error) ==
  IF error.hasResponse THEN
    [message |-> IF Truthy(error.bodyMessage) THEN error.bodyMessage
                 ELSE "F1 API request failed",
     status |-> error.status,
     code |-> IF Truthy(error.bodyCode) THEN error.bodyCode ELSE "API_ERROR"]
  ELSE IF error.hasRequest THEN
    [message |-> "Jolpica F1 API service unavailable", status |-> Undef,
     code |-> "NETWORK_ERROR"]
  ELSE
    [message |-> error.message, status |-> error.status, code |-> error.code]

NoError == [message |-> Undefined, status |-> Undef, code |-> Undefined]

\* What the upstream can do with one GET: answer 2xx with a body, or fail.
Ok(status, body) == [ok |-> TRUE, status |-> status, body |-> body, error |-> SetupError]
Fail(error) == [ok |-> FALSE, status |-> 0, body |-> Undefined, error |-> error]

\* The response interceptor: a 2xx response is passed on, a rejection is
\* replaced by formatError(error).
Intercept(outcome) ==
  IF outcome.ok THEN [ok |-> TRUE, status |-> outcome.status, body |-> outcome.body,
                      err |-> NoError]
  ELSE [ok |-> FALSE, status |-> 0, body |-> Undefined, err |-> formatError(outcome.error)]

\* a catch block that throws a fresh generic error in place of the caught one
MakeRequestCatchGeneric(error) ==
  [message |-> "F1 API request failed", status |-> Undef, code |-> "API_ERROR"]
\* makeRequest's catch block: log, then `throw error`
MakeRequestCatch(error) == error

\* healthCheck's two exits: `return response.status === 200` and the catch's `return false`
HealthResult(res) == IF res.ok THEN res.status = 200 ELSE FALSE

\* -------------------------------------------------------------------- tools
\* The request a tool handler receives.  The handlers read season, round,
\* driverId and constructorId as properties of request.params; the server's
\* dispatchers build request.params as { name, arguments }.
Args(season, round, id) == [season |-> season, round |-> round, id |-> id]
NoArgs == Args(Undef, Undef, Undef)
\* via: who called the handler ("handler": called as such, "mcp": the
\* tools/call handler, "http": POST /tools/invoke).
ToolReq(name, season, round, id, arguments) ==
  [name |-> name, season |-> season, round |-> round, id |-> id, arguments |-> arguments,
   via |-> "handler"]
NoToolReq == [ToolReq("none", Undef, Undef, Undef, NoArgs) EXCEPT !.via = "none"]
\* request.params as the tools/call handler receives it from a client that
\* sends { name, arguments }
CallToolRequest(name, arguments) ==
  [ToolReq(name, Undef, Undef, Undef, arguments) EXCEPT !.via = "mcp"]
\* `const request = { params: { name: toolName, arguments: parameters } }`
HttpRequest(name, parameters) ==
  [ToolReq(name, Undef, Undef, Undef, parameters) EXCEPT !.via = "http"]

ToolNames ==
  {"get_f1_seasons", "get_current_f1_season", "get_f1_races", "get_f1_race_details",
   "get_current_f1_race", "get_next_f1_race", "get_f1_drivers", "get_f1_driver_details",
   "get_f1_constructors", "get_f1_constructor_details", "get_f1_race_results",
   "get_f1_qualifying_results", "get_f1_driver_standings",
   "get_f1_constructor_standings"}

\* getTools() of each tool category, and allTools as registerTools and
\* POST /tools/invoke collect it
SeasonsTools == {"get_f1_seasons", "get_current_f1_season"}
RacesTools ==
  {"get_f1_races", "get_f1_race_details", "get_current_f1_race", "get_next_f1_race"}
DriversTools == {"get_f1_drivers", "get_f1_driver_details"}
ConstructorsTools == {"get_f1_constructors", "get_f1_constructor_details"}
ResultsTools ==
  {"get_f1_race_results", "get_f1_qualifying_results", "get_f1_driver_standings",
   "get_f1_constructor_standings"}
AllTools ==
  SeasonsTools \cup RacesTools \cup DriversTools \cup ConstructorsTools \cup ResultsTools
\* the tools of the README's "MCP Tools Reference"
ReadmeTools ==
  {"get_f1_seasons", "get_current_f1_season",
   "get_f1_races", "get_f1_race_details", "get_current_f1_race", "get_next_f1_race",
   "get_f1_drivers", "get_f1_driver_details",
   "get_f1_constructors", "get_f1_constructor_details",
   "get_f1_race_results", "get_f1_qualifying_results", "get_f1_driver_standings",
   "get_f1_constructor_standings"}

\* the gateway operation each handler awaits
ToolOp(name) ==
  CASE name = "get_f1_seasons" -> "getSeasons"
    [] name = "get_current_f1_season" -> "getCurrentSeason"
    [] name = "get_f1_races" -> "getRaces"
    [] name = "get_f1_race_details" -> "getRace"
    [] name = "get_current_f1_race" -> "getCurrentRace"
    [] name = "get_next_f1_race" -> "getNextRace"
    [] name = "get_f1_drivers" -> "getDrivers"
    [] name = "get_f1_driver_details" -> "getDriver"
    [] name = "get_f1_constructors" -> "getConstructors"
    [] name = "get_f1_constructor_details" -> "getConstructor"
    [] name = "get_f1_race_results" -> "getRaceResults"
    [] name = "get_f1_qualifying_results" -> "getQualifyingResults"
    [] name = "get_f1_driver_standings" -> "getDriverStandings"
    [] name = "get_f1_constructor_standings" -> "getConstructorStandings"

\* the code each handler's catch block falls back to: error.code || '..._ERROR'
ToolErrorCode(name) ==
  CASE name = "get_f1_seasons" -> "SEASONS_ERROR"
    [] name = "get_current_f1_season" -> "CURRENT_SEASON_ERROR"
    [] name = "get_f1_races" -> "RACES_ERROR"
    [] name = "get_f1_race_details" -> "RACE_DETAILS_ERROR"
    [] name = "get_current_f1_race" -> "CURRENT_RACE_ERROR"
    [] name = "get_next_f1_race" -> "NEXT_RACE_ERROR"
    [] name = "get_f1_drivers" -> "DRIVERS_ERROR"
    [] name = "get_f1_driver_details" -> "DRIVER_DETAILS_ERROR"
    [] name = "get_f1_constructors" -> "CONSTRUCTORS_ERROR"
    [] name = "get_f1_constructor_details" -> "CONSTRUCTOR_DETAILS_ERROR"
    [] name = "get_f1_race_results" -> "RACE_RESULTS_ERROR"
    [] name = "get_f1_qualifying_results" -> "QUALIFYING_RESULTS_ERROR"
    [] name = "get_f1_driver_standings" -> "DRIVER_STANDINGS_ERROR"
    [] name = "get_f1_constructor_standings" -> "CONSTRUCTOR_STANDINGS_ERROR"

RoundTools == {"get_f1_race_details", "get_f1_race_results", "get_f1_qualifying_results"}
IdTools == {"get_f1_driver_details", "get_f1_constructor_details"}
NoArgTools ==
  {"get_f1_seasons", "get_current_f1_season", "get_current_f1_race", "get_next_f1_race"}

\* `if (!round) throw ...`, `if (!driverId) throw ...`, `if (!constructorId) throw ...`
Missing(q) ==
  \/ q.name \in RoundTools /\ FalsyArg(q.round)
  \/ q.name \in IdTools /\ FalsyArg(q.id)
MissingMessage(name) ==
  CASE name \in RoundTools -> "Round number is required"
    [] name = "get_f1_driver_details" -> "Driver ID is required"
    [] name = "get_f1_constructor_details" -> "Constructor ID is required"

\* the arguments the handler passes to the gateway operation:
\* season = request.params?.season || 'current', round and id as read
GatewayReq(q) ==
  CASE q.name \in NoArgTools -> [op |-> ToolOp(q.name), season |-> Undef, round |-> Undef, id |-> Undef]
    [] q.name \in RoundTools ->
         [op |-> ToolOp(q.name), season |-> OrArg(q.season, Str(sCurrent)),
          round |-> q.round, id |-> Undef]
    [] q.name \in IdTools ->
         [op |-> ToolOp(q.name), season |-> OrArg(q.season, Str(sCurrent)),
          round |-> Undef, id |-> q.id]
    [] OTHER ->
         [op |-> ToolOp(q.name), season |-> OrArg(q.season, Str(sCurrent)),
          round |-> Undef, id |-> Undef]

\* What a handler returns: content[0].text is the JSON of { success, data }
\* or of { success: false, error: { message, code } }, with isError: true on
\* the second.  (The summary line of the first is left out.)
NoEnvelope ==
  [t |-> "none", isError |-> FALSE, success |-> FALSE, data |-> NoReturn,
   message |-> Undefined, code |-> Undefined]
\* a catch block that lets the error escape the handler
HandlerCatchRethrowing(q, error) == NoEnvelope
\* the handler's catch block
HandlerCatch(q, error) ==
  IF q.name = "none" THEN NoEnvelope
  ELSE [NoEnvelope EXCEPT !.t = "envelope", !.isError = TRUE, !.success = FALSE,
                          !.message = error.message,
                          !.code = IF Truthy(error.code) THEN error.code
                                   ELSE ToolErrorCode(q.name)]
\* the handler's return after the awaited operation returned
HandlerReturn(q, returned) ==
  IF q.name = "none" THEN NoEnvelope
  ELSE [NoEnvelope EXCEPT !.t = "envelope", !.success = TRUE, !.data = returned]
\* new Error(message): no code, no status
PlainError(message) == [message |-> message, status |-> Undef, code |-> Undefined]

\* ------------------------------------------------------------------ NodeCache
\* cache: key -> [v: stored value, ttl: the TTL given to set, age: seconds
\* since the set].  NodeCache keeps the expiry instant t = (instant of the
\* set) + ttl and finds an entry expired when t < Date.now(), that is when
\* age > ttl.  The age of an expired entry is kept as ttl + 1: nothing reads
\* how long an entry has been expired.
NoCache == [k \in {} |-> [v |-> Undefined, ttl |-> 0, age |-> 0]]
Expired(entry) == entry.age > entry.ttl
CacheHas(c, key) == key \in DOMAIN c
CacheFresh(c, key) == CacheHas(c, key) /\ ~Expired(c[key])
Without(c, keys) == [k \in (DOMAIN c) \ keys |-> c[k]]

\* cache.get(key): the value of a live entry, undefined otherwise
CacheGet(c, key) == IF CacheFresh(c, key) THEN c[key].v ELSE Undefined
\* a get that also drops an entry whose value is falsy
CacheAfterGetDroppingFalsy(c, key) ==
  IF CacheHas(c, key) /\ (Expired(c[key]) \/ ~Truthy(c[key].v)) THEN Without(c, {key}) ELSE c
\* a get that deletes every entry that has expired, whatever its key
CacheAfterGetSweeping(c, key) == Without(c, {k \in DOMAIN c : Expired(c[k])})
\* cache.get(key) deletes an entry it finds expired
CacheAfterGet(c, key) ==
  IF CacheHas(c, key) /\ Expired(c[key]) THEN Without(c, {key}) ELSE c
\* cache.set(key, value) without the ttl argument: the constructor's stdTTL applies
CacheSetStdTTL(c, key, value, ttl) ==
  [k \in (DOMAIN c) \cup {key} |->
     IF k = key THEN [v |-> value, ttl |-> 300, age |-> 0] ELSE c[k]]
\* cache.set(key, value, ttl)
CacheSet(c, key, value, ttl) ==
  [k \in (DOMAIN c) \cup {key} |->
     IF k = key THEN [v |-> value, ttl |-> ttl, age |-> 0] ELSE c[k]]
\* the periodic check (checkperiod) deletes every expired entry
ExpiredKeys(c) == {k \in DOMAIN c : Expired(c[k])}
\* d seconds pass
Older(entry, d) ==
  [entry EXCEPT !.age = IF entry.age + d > entry.ttl THEN entry.ttl + 1
                        ELSE entry.age + d]

\* ---------------------------------------------------------------- the state
VARIABLES
  cache,     \* the NodeCache instance of the F1ApiClient singleton
  ticks,     \* number of clock advances so far
  ncalls,    \* number of calls made on the client so far
  inv,       \* the calls in progress on the client (one per caller slot)
  pure,      \* inputs and outputs of the pure functions, applied on their own
  server     \* the F1MCPServer process: its environment, start-up and transport

vars == <<cache, ticks, ncalls, inv, pure, server>>

Procs == 1..NumProcs

Req(op, season, round, id) == [op |-> op, season |-> season, round |-> round, id |-> id]
NoReq == Req("none", Undef, Undef, Undef)
HealthReq == Req("healthCheck", Undef, Undef, Undef)
StatsReq == Req("getCacheStats", Undef, Undef, Undef)

\* the gateway invocations callers make
Requests ==
  { Req("getRaces", Str(s2024), Undef, Undef),
    Req("getCurrentRace", Undef, Undef, Undef),
    Req("getDriverStandings", Undef, Undef, Undef) }

\* what the upstream answers to one GET
Outcomes ==
  { Ok(200, "doc1"), Ok(200, "doc2"), Ok(204, ""),
    Fail(HttpError(503, Undefined, Undefined)),
    Fail(TimeoutError) }

NoResult == [kind |-> "none", v |-> Undefined, err |-> NoError, b |-> FALSE, keys |-> 0]
Value(v) == [NoResult EXCEPT !.kind = "value", !.v = v]
Thrown(e) == [NoResult EXCEPT !.kind = "error", !.err = e]
Bool(b) == [NoResult EXCEPT !.kind = "bool", !.b = b]
StatsSnapshot(keys) == [NoResult EXCEPT !.kind = "stats", !.keys = keys]
NoUpstream == [ok |-> FALSE, status |-> 0, body |-> Undefined, err |-> NoError]

\* pc: where the call is; endpoint: makeRequest's argument; found/foundV: whether cache.get saw a live entry, and
\* what it returned; afterFail: whether the call started while a failed
\* invocation for the same endpoint was the last result of some slot; lookups:
\* cache.get calls made; gets: upstream GETs issued; sets: cache.set calls made;
\* up: what client.get settled with; result: what makeRequest (or healthCheck,
\* getCacheStats) settled with, or what the handler threw before calling;
\* tool: the request of the tool handler that made the call, if one did;
\* cleared: whether clearCache() ran while the call's GET was pending (kept
\* only where the forced refresh is followed).
IdleInv ==
  [pc |-> "idle", req |-> NoReq, endpoint |-> <<>>, found |-> FALSE,
   foundV |-> Undefined, afterFail |-> FALSE, lookups |-> 0, gets |-> 0, sets |-> 0,
   up |-> NoUpstream, result |-> NoResult, tool |-> NoToolReq, cleared |-> FALSE]

\* What the gateway operation of a call returns once makeRequest has returned
\* its data: `const data = await this.makeRequest(...); return { ... }`.  An
\* operation whose makeRequest threw returns nothing.
Returned(call) ==
  IF call.pc = "done" /\ call.req.op \in Ops /\ call.result.kind = "value"
  THEN Wrapper(call.req, call.result.v)
  ELSE NoReturn

\* What the tool handler of a call returns: try { ...; data = await
\* f1ApiClient.<operation>(...); return <success> } catch (error) { return <failure> }.
Envelope(call) ==
  IF call.pc # "done" \/ call.tool.name \notin AllTools THEN NoEnvelope
  ELSE IF call.result.kind = "error" THEN HandlerCatch(call.tool, call.result.err)
  ELSE HandlerReturn(call.tool, Returned(call))

\* What the tools/call handler returns for a call: { isError: true, 'Unknown
\* tool: ...' } for a name not in allTools, what the handler returned, or
\* { isError: true, 'Error executing tool: ...' } when the handler threw.
CallToolReply(call) ==
  IF call.tool.name \notin AllTools
  THEN [isError |-> TRUE, text |-> "Unknown tool", envelope |-> NoEnvelope]
  ELSE IF Envelope(call).t = "none"
  THEN [isError |-> TRUE, text |-> "Error executing tool", envelope |-> NoEnvelope]
  ELSE [isError |-> Envelope(call).isError, text |-> "envelope", envelope |-> Envelope(call)]

\* a POST /tools/invoke that answers 500 when the handler's result has isError
HttpReplyByEnvelope(call) ==
  IF ~Truthy(call.tool.name)
  THEN [status |-> 400, success |-> FALSE, error |-> "Tool name is required",
        result |-> NoEnvelope]
  ELSE IF call.tool.name \notin AllTools
  THEN [status |-> 404, success |-> FALSE, error |-> "Unknown tool", result |-> NoEnvelope]
  ELSE IF Envelope(call).t = "none" \/ Envelope(call).isError
  THEN [status |-> 500, success |-> FALSE, error |-> call.result.err.message,
        result |-> NoEnvelope]
  ELSE [status |-> 200, success |-> TRUE, error |-> Undefined, result |-> Envelope(call)]
\* What POST /tools/invoke answers for a call: 400 without a tool name, 404
\* for a name not in allTools, 200 { success: true, result: result.content ||
\* result } when the handler returned, 500 when it threw.
HttpReply(call) ==
  IF ~Truthy(call.tool.name)
  THEN [status |-> 400, success |-> FALSE, error |-> "Tool name is required",
        result |-> NoEnvelope]
  ELSE IF call.tool.name \notin AllTools
  THEN [status |-> 404, success |-> FALSE, error |-> "Unknown tool", result |-> NoEnvelope]
  ELSE IF Envelope(call).t = "none"
  THEN [status |-> 500, success |-> FALSE, error |-> call.result.err.message,
        result |-> NoEnvelope]
  ELSE [status |-> 200, success |-> TRUE, error |-> Undefined, result |-> Envelope(call)]

\* The process: NODE_ENV and DEPLOY_MODE from the environment, how far start()
\* has come, the transport it opened and the code it exited with; what GET
\* /health and GET /tools answered last.
NodeEnvs == {"production", "development", Undefined}
DeployModes == {"web", Undefined}
NoExit == 0 - 1
NoServer ==
  [phase |-> "off", nodeEnv |-> Undefined, deployMode |-> Undefined,
   transport |-> "none", exitCode |-> NoExit, apiAvailable |-> FALSE,
   health |-> [asked |-> FALSE, apiAvailable |-> FALSE],
   listed |-> [asked |-> FALSE, tools |-> {}, totalTools |-> 0]]

\* ------------------------------------------- the pure functions on their own
\* arguments callers can pass: a year, 'current', nothing, or any other string
SeasonArgs == {Undef, Str(s2024), Str(sCurrent), Str(sSeasonWithPath)}
RoundArgs == {Num(1), Num(12)}
IdArgs == {Str(sMax), Str(sIdWithPath), Str(sResults), Str(sStandings)}

AllRequests ==
  {Req(op, Undef, Undef, Undef) :
     op \in {"getSeasons", "getCurrentSeason", "getCurrentRace", "getNextRace"}}
  \cup {Req(op, s, Undef, Undef) :
     op \in {"getRaces", "getDrivers", "getConstructors", "getDriverStandings",
             "getConstructorStandings"}, s \in SeasonArgs}
  \cup {Req(op, s, n, Undef) :
     op \in {"getRace", "getRaceResults", "getQualifyingResults"},
     s \in SeasonArgs, n \in RoundArgs}
  \cup {Req(op, s, Undef, d) :
     op \in {"getDriver", "getConstructor"}, s \in SeasonArgs, d \in IdArgs}

\* errors axios can reject with
AxiosErrors ==
  {HttpError(st, m, c) : st \in {404, 500, 503}, m \in {Undefined, "", "Not Found"},
                         c \in {Undefined, "NOT_FOUND"}}
  \cup {TimeoutError, RefusedError, SetupError}

NoPure ==
  [stage |-> "off", a |-> NoReq, b |-> NoReq, keyA |-> <<>>, keyB |-> <<>>,
   ttl |-> 0, error |-> SetupError, formatted |-> NoError]

InitPure ==
  /\ cache = NoCache
  /\ ticks = 0
  /\ ncalls = 0
  /\ inv = [i \in Procs |-> IdleInv]
  /\ server = NoServer
  /\ \/ \E a \in AllRequests, b \in AllRequests :
          pure = [NoPure EXCEPT !.stage = "requests", !.a = a, !.b = b]
     \/ \E e \in AxiosErrors : pure = [NoPure EXCEPT !.stage = "error", !.error = e]

\* the two requests are resolved to their endpoints and cache keys
Resolve ==
  /\ pure.stage = "requests"
  /\ pure' = [pure EXCEPT !.stage = "resolved",
                          !.keyA = CacheKey(Endpoint(pure.a)),
                          !.keyB = CacheKey(Endpoint(pure.b))]
  /\ UNCHANGED <<cache, ticks, ncalls, inv, server>>

\* the first request's endpoint is classified
Classify ==
  /\ pure.stage = "resolved"
  /\ pure' = [pure EXCEPT !.stage = "classified", !.ttl = getCacheTTL(pure.keyA)]
  /\ UNCHANGED <<cache, ticks, ncalls, inv, server>>

\* the response interceptor's rejection handler normalises the error
Format ==
  /\ pure.stage = "error"
  /\ pure' = [pure EXCEPT !.stage = "formatted", !.formatted = formatError(pure.error)]
  /\ UNCHANGED <<cache, ticks, ncalls, inv, server>>

NextPure == Resolve \/ Classify \/ Format

SpecPure == InitPure /\ [][NextPure]_vars

\* callers take the lowest slot with no call in flight
FreeSlot(i) == inv[i].pc # "awaiting" /\ \A j \in Procs : j < i => inv[j].pc = "awaiting"

Init ==
  /\ cache = NoCache
  /\ ticks = 0
  /\ ncalls = 0
  /\ inv = [i \in Procs |-> IdleInv]
  /\ pure = NoPure
  /\ server = NoServer

\* ------------------------------------------------------------- makeRequest
\* `if (cached)`: the lookup counts as a hit when the value is truthy
IsHit(cached) == Truthy(cached)

\* A gateway operation is invoked (by tool request q, if any): it resolves its
\* endpoint and makeRequest runs up to its first await: cache.get, then either
\* the return of the cached value or the upstream GET.
CallAs(i, r, q) ==
  LET endpoint == Endpoint(r)
      cacheKey == CacheKey(endpoint)
      cached == CacheGet(cache, cacheKey)
      failed == \E j \in Procs : /\ inv[j].pc = "done"
                                  /\ inv[j].result.kind = "error"
                                  /\ inv[j].endpoint = endpoint
      seen == [IdleInv EXCEPT !.req = r, !.endpoint = endpoint, !.tool = q,
                 !.found = CacheFresh(cache, cacheKey), !.foundV = cached,
                 !.afterFail = failed, !.lookups = 1]
  IN /\ FreeSlot(i)
     /\ ncalls < MaxCalls
     /\ ncalls' = ncalls + 1
     /\ cache' = CacheAfterGet(cache, cacheKey)
     /\ inv' = [inv EXCEPT ![i] =
                  IF IsHit(cached)
                  THEN [seen EXCEPT !.pc = "done", !.result = Value(cached)]
                  ELSE [seen EXCEPT !.pc = "awaiting", !.gets = 1]]
     /\ UNCHANGED <<ticks, pure, server>>

\* a caller invokes the operation on the client directly
Call(i, r) == CallAs(i, r, NoToolReq)

\* The call after its awaited GET was answered with a 2xx: makeRequest has
\* stored and returned the body.
Fulfilled(call, res) ==
  [call EXCEPT !.pc = "done", !.up = res, !.sets = @ + 1, !.result = Value(res.body)]
\* The call after its awaited GET was rejected: makeRequest's catch block has
\* thrown, and the `await this.makeRequest(...)` of the operation throws with it.
Rejected(call, res) ==
  [call EXCEPT !.pc = "done", !.up = res, !.result = Thrown(MakeRequestCatch(res.err))]

\* makeRequest remembering a failure: the catch block stores a marker under the key
RespondCachingFailure(i, outcome) ==
  LET res == Intercept(outcome)
      endpoint == inv[i].endpoint
      ttl == getCacheTTL(endpoint)
  IN /\ inv[i].pc = "awaiting"
     /\ inv[i].req.op \in Ops
     /\ IF res.ok
        THEN /\ cache' = CacheSet(cache, CacheKey(endpoint), res.body, ttl)
             /\ inv' = [inv EXCEPT ![i] = Fulfilled(inv[i], res)]
        ELSE /\ cache' = CacheSet(cache, CacheKey(endpoint), "failed", ttl)
             /\ inv' = [inv EXCEPT ![i] = Rejected(inv[i], res)]
     /\ UNCHANGED <<ticks, ncalls, pure, server>>

\* makeRequest on a client created without the timeout option: a GET the
\* upstream does not answer is never rejected
RespondWithoutTimeout(i, outcome) ==
  LET res == Intercept(outcome)
      endpoint == inv[i].endpoint
      ttl == getCacheTTL(endpoint)
  IN /\ outcome # Fail(TimeoutError)
     /\ inv[i].pc = "awaiting"
     /\ inv[i].req.op \in Ops
     /\ IF res.ok
        THEN /\ cache' = CacheSet(cache, CacheKey(endpoint), res.body, ttl)
             /\ inv' = [inv EXCEPT ![i] = Fulfilled(inv[i], res)]
        ELSE /\ cache' = cache
             /\ inv' = [inv EXCEPT ![i] = Rejected(inv[i], res)]
     /\ UNCHANGED <<ticks, ncalls, pure, server>>

\* makeRequest keeping an entry another invocation stored meanwhile
RespondKeepingFirst(i, outcome) ==
  LET res == Intercept(outcome)
      endpoint == inv[i].endpoint
      ttl == getCacheTTL(endpoint)
  IN /\ inv[i].pc = "awaiting"
     /\ inv[i].req.op \in Ops
     /\ IF res.ok
        THEN /\ cache' = IF CacheHas(cache, CacheKey(endpoint)) THEN cache
                         ELSE CacheSet(cache, CacheKey(endpoint), res.body, ttl)
             /\ inv' = [inv EXCEPT ![i] = Fulfilled(inv[i], res)]
        ELSE /\ cache' = cache
             /\ inv' = [inv EXCEPT ![i] = Rejected(inv[i], res)]
     /\ UNCHANGED <<ticks, ncalls, pure, server>>

\* makeRequest issuing the GET again when the first one is rejected
RespondRetrying(i, outcome) ==
  LET res == Intercept(outcome)
      endpoint == inv[i].endpoint
      ttl == getCacheTTL(endpoint)
  IN /\ inv[i].pc = "awaiting"
     /\ inv[i].req.op \in Ops
     /\ IF res.ok
        THEN /\ cache' = CacheSet(cache, CacheKey(endpoint), res.body, ttl)
             /\ inv' = [inv EXCEPT ![i] = Fulfilled(inv[i], res)]
        ELSE /\ cache' = cache
             /\ inv' = IF inv[i].gets < 2
                       THEN [inv EXCEPT ![i].gets = @ + 1]
                       ELSE [inv EXCEPT ![i] = Rejected(inv[i], res)]
     /\ UNCHANGED <<ticks, ncalls, pure, server>>

\* The awaited client.get settles: on a 2xx the body is stored with the
\* endpoint's TTL and returned; on a rejection the error is rethrown.
Respond(i, outcome) ==
  LET res == Intercept(outcome)
      endpoint == inv[i].endpoint
      ttl == getCacheTTL(endpoint)
  IN /\ inv[i].pc = "awaiting"
     /\ inv[i].req.op \in Ops
     /\ IF res.ok
        THEN /\ cache' = CacheSet(cache, CacheKey(endpoint), res.body, ttl)
             /\ inv' = [inv EXCEPT ![i] = Fulfilled(inv[i], res)]
        ELSE /\ cache' = cache
             /\ inv' = [inv EXCEPT ![i] = Rejected(inv[i], res)]
     /\ UNCHANGED <<ticks, ncalls, pure, server>>

\* -------------------------------------------------------------- healthCheck
\* a healthCheck() that looks /seasons.json up in the cache before its GET
HealthStartThroughCache(i) ==
  /\ FreeSlot(i)
  /\ ncalls < MaxCalls
  /\ ncalls' = ncalls + 1
  /\ cache' = CacheAfterGet(cache, sSeasonsJson)
  /\ inv' = [inv EXCEPT ![i] = [IdleInv EXCEPT !.pc = "awaiting", !.req = HealthReq,
                                  !.lookups = 1, !.gets = 1]]
  /\ UNCHANGED <<ticks, pure, server>>

\* healthCheck() issues its GET of /seasons.json?limit=1 without consulting the cache
HealthStart(i) ==
  /\ FreeSlot(i)
  /\ ncalls < MaxCalls
  /\ ncalls' = ncalls + 1
  /\ inv' = [inv EXCEPT ![i] = [IdleInv EXCEPT !.pc = "awaiting", !.req = HealthReq,
                                  !.gets = 1]]
  /\ UNCHANGED <<cache, ticks, pure, server>>

\* a healthCheck that keeps the listing it fetched in the cache
HealthRespondStoring(i, outcome) ==
  LET res == Intercept(outcome)
  IN /\ inv[i].pc = "awaiting"
     /\ inv[i].req.op = "healthCheck"
     /\ inv' = [inv EXCEPT ![i].pc = "done", ![i].up = res,
                  ![i].result = Bool(HealthResult(res))]
     /\ cache' = IF res.ok
                 THEN CacheSet(cache, sSeasonsJson, res.body, getCacheTTL(sSeasonsJson))
                 ELSE cache
     /\ UNCHANGED <<ticks, ncalls, pure, server>>

HealthRespond(i, outcome) ==
  LET res == Intercept(outcome)
  IN /\ inv[i].pc = "awaiting"
     /\ inv[i].req.op = "healthCheck"
     /\ inv' = [inv EXCEPT ![i].pc = "done", ![i].up = res,
                  ![i].result = Bool(HealthResult(res))]
     /\ UNCHANGED <<cache, ticks, ncalls, pure, server>>

\* ------------------------------------------------- clearCache, getCacheStats
\* a clear that only evicts what has expired
ClearCacheExpiredOnly ==
  /\ cache' = Without(cache, ExpiredKeys(cache))
  /\ UNCHANGED <<ticks, ncalls, inv, pure, server>>

\* cache.flushAll() empties the store
ClearCache ==
  /\ cache' = NoCache
  /\ UNCHANGED <<ticks, ncalls, inv, pure, server>>

\* cache.getStats(): of the snapshot, the number of keys held
GetCacheStats(i) ==
  /\ FreeSlot(i)
  /\ ncalls < MaxCalls
  /\ ncalls' = ncalls + 1
  /\ inv' = [inv EXCEPT ![i] = [IdleInv EXCEPT !.pc = "done", !.req = StatsReq,
                                  !.result = StatsSnapshot(Cardinality(DOMAIN cache))]]
  /\ UNCHANGED <<cache, ticks, pure, server>>

\* clearCache() as a forced refresh, run while GETs may be pending: the store
\* is emptied, and each pending GET is remembered as issued before the clear
Refresh ==
  /\ cache' = NoCache
  /\ inv' = [i \in Procs |->
               IF inv[i].pc = "awaiting" THEN [inv[i] EXCEPT !.cleared = TRUE] ELSE inv[i]]
  /\ UNCHANGED <<ticks, ncalls, pure, server>>

\* --------------------------------------------------------------- F1MCPServer
\* new F1MCPServer(): the handlers are registered and the cron job is
\* scheduled; start() has not run yet
Constructed(nodeEnv, deployMode) ==
  [NoServer EXCEPT !.phase = "constructed", !.nodeEnv = nodeEnv, !.deployMode = deployMode]
\* the process has not exited
Alive == server.phase # "exited"

\* the tool requests that reach the handlers
ToolRequests ==
  { ToolReq("get_f1_races", Str(s2024), Undef, Undef, NoArgs),
    ToolReq("get_f1_race_details", Undef, Num(1), Undef, NoArgs),
    ToolReq("get_f1_race_details", Str(s2024), Undef, Undef, NoArgs),
    ToolReq("get_f1_race_results", Undef, Undef, Undef, NoArgs),
    ToolReq("get_f1_qualifying_results", Undef, Undef, Undef, NoArgs),
    ToolReq("get_f1_driver_details", Undef, Undef, Undef, NoArgs),
    ToolReq("get_f1_constructor_details", Str(s2024), Undef, Undef, NoArgs),
    ToolReq("get_f1_race_results", Undef, Undef, Undef, Args(Str(s2024), Num(1), Undef)) }

InitServer ==
  /\ cache = NoCache
  /\ ticks = 0
  /\ ncalls = 0
  /\ inv = [i \in Procs |-> IdleInv]
  /\ pure = NoPure
  /\ \E nodeEnv \in NodeEnvs, deployMode \in DeployModes :
       server = Constructed(nodeEnv, deployMode)

\* start() up to its await: f1ApiClient.healthCheck() issues its GET
Start ==
  /\ server.phase = "constructed"
  /\ server' = [server EXCEPT !.phase = "checking"]
  /\ UNCHANGED <<cache, ticks, ncalls, inv, pure>>

\* a start() that awaits healthCheck() and does not look at its result
StartRespondIgnoringHealth(outcome) ==
  LET isApiAvailable == HealthResult(Intercept(outcome))
  IN /\ server.phase = "checking"
     /\ server' = [server EXCEPT !.phase = "running", !.apiAvailable = isApiAvailable,
                                 !.transport = IF server.deployMode = "web" THEN "http"
                                               ELSE "stdio"]
     /\ UNCHANGED <<cache, ticks, ncalls, inv, pure>>

\* start() after healthCheck() settled: with the API available, or in
\* production, it opens the web service (DEPLOY_MODE web) or the stdio
\* transport; otherwise it throws, and its catch block calls process.exit(1)
StartRespond(outcome) ==
  LET isApiAvailable == HealthResult(Intercept(outcome))
  IN /\ server.phase = "checking"
     /\ server' = IF isApiAvailable \/ server.nodeEnv = "production"
                  THEN [server EXCEPT !.phase = "running", !.apiAvailable = isApiAvailable,
                                      !.transport = IF server.deployMode = "web" THEN "http"
                                                    ELSE "stdio"]
                  ELSE [server EXCEPT !.phase = "exited", !.apiAvailable = isApiAvailable,
                                      !.exitCode = 1]
     /\ UNCHANGED <<cache, ticks, ncalls, inv, pure>>

\* a handler that calls the operation without checking its required argument
InvokeWithoutValidation(i, q) ==
  /\ server.phase = "running"
  /\ CallAs(i, GatewayReq(q), q)

\* A tool handler runs on request q up to its first await: it reads its
\* arguments, throws into its own catch block when the required one is
\* missing, and otherwise calls the gateway operation.
Invoke(i, q) ==
  /\ server.phase = "running"
  /\ IF Missing(q)
     THEN /\ FreeSlot(i)
          /\ ncalls < MaxCalls
          /\ ncalls' = ncalls + 1
          /\ inv' = [inv EXCEPT ![i] =
                       [IdleInv EXCEPT !.pc = "done", !.tool = q,
                          !.result = Thrown(PlainError(MissingMessage(q.name)))]]
          /\ UNCHANGED <<cache, ticks, pure, server>>
     ELSE CallAs(i, GatewayReq(q), q)

\* the cron job (every 30 seconds, scheduled by the constructor) calls healthCheck()
CronPing(i) ==
  /\ Alive
  /\ HealthStart(i)

\* The lookup both dispatchers make before running a handler on request q:
\* `allTools.find((t) => t.name === toolName)`; without a match the call ends
\* with the dispatcher's own answer, otherwise the handler runs.
Dispatch(i, q) ==
  IF q.name \notin AllTools
  THEN /\ server.phase = "running"
       /\ FreeSlot(i)
       /\ ncalls < MaxCalls
       /\ ncalls' = ncalls + 1
       /\ inv' = [inv EXCEPT ![i] = [IdleInv EXCEPT !.pc = "done", !.tool = q]]
       /\ UNCHANGED <<cache, ticks, pure, server>>
  ELSE Invoke(i, q)

\* the tools/call handler registered by registerTools, reached over stdio
CallTool(i, name, arguments) ==
  /\ server.transport = "stdio"
  /\ Dispatch(i, CallToolRequest(name, arguments))

\* POST /tools/invoke with body { tool: name, parameters }: `if (!toolName)`
\* answers 400 before the lookup
InvokeHttp(i, name, parameters) ==
  /\ server.transport = "http"
  /\ Dispatch(i, HttpRequest(name, parameters))

\* GET /health
GetHealth ==
  /\ server.phase = "running"
  /\ server.transport = "http"
  /\ server' = [server EXCEPT !.health = [asked |-> TRUE, apiAvailable |-> TRUE]]
  /\ UNCHANGED <<cache, ticks, ncalls, inv, pure>>

\* GET /tools: this.server._capabilities.tools is the {} given to the
\* constructor, so the literal list is answered
GetTools ==
  /\ server.phase = "running"
  /\ server.transport = "http"
  /\ server' = [server EXCEPT !.listed = [asked |-> TRUE, tools |-> ToolNames,
                                          totalTools |-> 14]]
  /\ UNCHANGED <<cache, ticks, ncalls, inv, pure>>

\* ------------------------------------------------------------ time, sweeping
\* NodeCache's periodic check deletes the entries that have expired
Sweep ==
  /\ ExpiredKeys(cache) # {}
  /\ cache' = Without(cache, ExpiredKeys(cache))
  /\ UNCHANGED <<ticks, ncalls, inv, pure, server>>

\* The clock advances: by one second, or up to the expiry instant of a live
\* entry, or to the second after it.  Only the ages of live entries depend on
\* the clock.
Advances ==
  {1} \cup {cache[k].ttl - cache[k].age : k \in DOMAIN cache}
      \cup {cache[k].ttl - cache[k].age + 1 : k \in DOMAIN cache}
Tick ==
  /\ ticks < MaxTicks
  /\ \E k \in DOMAIN cache : ~Expired(cache[k])
  /\ \E d \in Advances : d > 0 /\ cache' = [k \in DOMAIN cache |-> Older(cache[k], d)]
  /\ ticks' = ticks + 1
  /\ UNCHANGED <<ncalls, inv, pure, server>>

Next ==
  \/ \E i \in Procs, r \in Requests : Call(i, r)
  \/ \E i \in Procs, o \in Outcomes : Respond(i, o)
  \/ \E i \in Procs : HealthStart(i)
  \/ \E i \in Procs, o \in Outcomes : HealthRespond(i, o)
  \/ \E i \in Procs : GetCacheStats(i)
  \/ ClearCache
  \/ Sweep
  \/ Tick

Spec == Init /\ [][Next]_vars

\* The axios instance is created with `timeout: this.timeout` (10000 ms unless
\* F1_API_TIMEOUT is set): a GET that has had no answer is rejected when the
\* timer fires, whatever the upstream does.  The upstream itself owes nothing.
\* Whether a call ends does not depend on the age of cache entries, so the
\* clock and the periodic check are left out of the steps.
NextLive ==
  \/ \E i \in Procs, r \in Requests : Call(i, r)
  \/ \E i \in Procs, o \in Outcomes : Respond(i, o)
  \/ \E i \in Procs : HealthStart(i)
  \/ \E i \in Procs, o \in Outcomes : HealthRespond(i, o)
  \/ ClearCache

\* weak fairness of the timeout of each pending GET
SpecLive ==
  /\ Init
  /\ [][NextLive]_vars
  /\ \A i \in Procs : WF_vars(Respond(i, Fail(TimeoutError)))
  /\ \A i \in Procs : WF_vars(HealthRespond(i, Fail(TimeoutError)))

\* The operations whose upstream paths the TTL classes and the shared keys
\* are about, called with explicit seasons, next to forced refreshes and the
\* clock.
OpRequests ==
  { Req("getCurrentSeason", Undef, Undef, Undef),
    Req("getRaces", Undef, Undef, Undef),
    Req("getRaces", Str(sCurrent), Undef, Undef),
    Req("getDriverStandings", Str(s2024), Undef, Undef),
    Req("getConstructorStandings", Str(s2024), Undef, Undef),
    Req("getRaceResults", Str(s2024), Num(1), Undef),
    Req("getQualifyingResults", Str(s2024), Num(1), Undef) }

NextOps ==
  \/ \E i \in Procs, r \in OpRequests : Call(i, r)
  \/ \E i \in Procs, o \in Outcomes : Respond(i, o)
  \/ Refresh
  \/ Tick

SpecOps == Init /\ [][NextOps]_vars

\* The server process: start-up, tool invocations through the handlers and
\* the scheduled health pings.  The server never calls clearCache or
\* getCacheStats; the clock is left out.
NextServer ==
  \/ Start
  \/ \E o \in Outcomes : StartRespond(o)
  \/ \E i \in Procs, q \in ToolRequests : Invoke(i, q)
  \/ \E i \in Procs, o \in Outcomes : Alive /\ Respond(i, o)
  \/ \E i \in Procs : CronPing(i)
  \/ \E i \in Procs, o \in Outcomes : Alive /\ HealthRespond(i, o)

SpecServer == InitServer /\ [][NextServer]_vars

\* what clients put in `arguments` / `parameters`
NoParameters == NoArgs
FullParameters == Args(Str(s2024), Num(1), Str(sMax))
\* an unknown tool name, next to the registered ones
DispatchNames == AllTools \cup {"get_f1_weather"}

\* The dispatch layer on its own: every tool of the catalog invoked through
\* the tools/call handler (stdio) or POST /tools/invoke (web).  The cron job
\* and the clock are left out.
NextDispatch ==
  \/ Start
  \/ \E o \in Outcomes : StartRespond(o)
  \/ \E i \in Procs, n \in DispatchNames, a \in {NoParameters, FullParameters} :
        CallTool(i, n, a)
  \/ \E i \in Procs, n \in DispatchNames \cup {Undefined},
          a \in {NoParameters, FullParameters} : InvokeHttp(i, n, a)
  \/ \E i \in Procs, o \in Outcomes : Alive /\ Respond(i, o)
  \/ GetTools

SpecDispatch == InitServer /\ [][NextDispatch]_vars

\* tool names a web client posts: none, the empty string, an unknown one and
\* two registered ones
WebNames == {Undefined, "", "get_f1_weather", "get_f1_races", "get_f1_race_details"}

\* The web service: POST /tools/invoke, GET /health and GET /tools after
\* start-up.
NextWeb ==
  \/ Start
  \/ \E o \in Outcomes : StartRespond(o)
  \/ \E i \in Procs, n \in WebNames, a \in {NoParameters, FullParameters} :
        InvokeHttp(i, n, a)
  \/ \E i \in Procs, o \in Outcomes : Alive /\ Respond(i, o)
  \/ GetHealth
  \/ GetTools

SpecWeb == InitServer /\ [][NextWeb]_vars

\* =================================================================== claims
IsGateway(i) == inv[i].req.op \in Ops
KeyOf(i) == CacheKey(inv[i].endpoint)
\* the step is the awaited GET of invocation i settling
Settles(i) == inv[i].pc = "awaiting" /\ inv'[i].pc = "done"
\* the step is the start of a call, which takes slot i
Starts(i) == ncalls' = ncalls + 1 /\ FreeSlot(i)

\* the TTL classes as the specification words them
TtlByRule(path) ==
  CASE Includes(path, sCurrent) -> 60
    [] ~Includes(path, sCurrent)
       /\ (Includes(path, sStandings) \/ Includes(path, sResults)) -> 300
    [] ~Includes(path, sCurrent) /\ ~Includes(path, sStandings)
       /\ ~Includes(path, sResults)
       /\ (Includes(path, sDrivers) \/ Includes(path, sConstructors)) -> 3600
    [] OTHER -> 1800

\* C1: an invocation that finds a live (non-expired) entry for its key issues
\* no upstream GET and returns the stored value, whatever JSON value is stored.
C1_HitShortCircuits ==
  \A i \in Procs :
    (IsGateway(i) /\ inv[i].found) =>
      (inv[i].pc = "done" /\ inv[i].gets = 0 /\ inv[i].result = Value(inv[i].foundV))

\* C2: when the awaited GET of an invocation settles with a 2xx, the invocation
\* has made exactly one upstream GET and exactly one cache.set, and the cache
\* then holds a fresh entry for its key with the fetched body and the TTL of the
\* key's class (1800 s for the races of season "2024"); the body is returned.
C2_MissFetchesAndStoresOnce ==
  [][\A i \in Procs :
       (IsGateway(i) /\ Settles(i) /\ inv'[i].up.ok) =>
         /\ inv'[i].gets = 1
         /\ inv'[i].sets = 1
         /\ inv'[i].result = Value(inv'[i].up.body)
         /\ CacheFresh(cache', KeyOf(i))
         /\ cache'[KeyOf(i)] =
              [v |-> inv'[i].up.body, ttl |-> TtlByRule(inv[i].endpoint), age |-> 0]
         /\ (inv[i].req = Req("getRaces", Str(s2024), Undef, Undef)
               => cache'[KeyOf(i)].ttl = 1800)]_vars

C2_Witness ==
  \E i \in Procs :
    /\ inv[i].pc = "done"
    /\ inv[i].req = Req("getRaces", Str(s2024), Undef, Undef)
    /\ ~inv[i].found
    /\ inv[i].up.ok
    /\ inv[i].sets = 1
    /\ CacheHas(cache, KeyOf(i))
    /\ cache[KeyOf(i)] = [v |-> inv[i].result.v, ttl |-> 1800, age |-> 0]

\* C3: a failed fetch leaves the cache as it was, so a key that had no fresh
\* entry has none afterwards, and the invocation for that key that follows the
\* failure and finds no fresh entry issues a new upstream GET.
C3_NoNegativeCaching ==
  [][\A i \in Procs :
       /\ (IsGateway(i) /\ Settles(i) /\ ~inv'[i].up.ok) =>
            (cache' = cache /\ inv'[i].result.kind = "error")
       /\ (IsGateway(i)' /\ Starts(i) /\ inv'[i].afterFail /\ ~inv'[i].found) =>
            (inv'[i].pc = "awaiting" /\ inv'[i].gets = 1)]_vars

C3_Witness ==
  \E i \in Procs :
    /\ IsGateway(i)
    /\ inv[i].afterFail
    /\ inv[i].pc = "awaiting"
    /\ inv[i].gets = 1
    /\ ~CacheHas(cache, KeyOf(i))

\* the step creates the entry under k or replaces it
Written(k) ==
  /\ k \in DOMAIN cache'
  /\ \/ k \notin DOMAIN cache
     \/ cache'[k].v # cache[k].v
     \/ cache'[k].ttl # cache[k].ttl
     \/ cache'[k].age < cache[k].age

C5_TtlClassification ==
  pure.stage = "classified" =>
    /\ pure.ttl = TtlByRule(pure.keyA)
    /\ (Includes(pure.keyA, sCurrent) /\ Includes(pure.keyA, sDrivers) => pure.ttl = 60)

C5_Witness ==
  /\ pure.stage = "classified"
  /\ Includes(pure.keyA, sCurrent)
  /\ Includes(pure.keyA, sDrivers)
  /\ pure.ttl = 60

\* the request passes every argument its operation takes
Supplied(r) ==
  r.op \in {"getSeasons", "getCurrentSeason", "getCurrentRace", "getNextRace"}
  \/ r.season.t # "undef"

\* C6: two requests with the same operation and the same arguments get the same
\* cache key, and two requests to the same operation whose (supplied) arguments
\* differ in season, round or id get different keys.
C6_CacheKeyDeterminism ==
  pure.stage \in {"resolved", "classified"} =>
    /\ (pure.a = pure.b => pure.keyA = pure.keyB)
    /\ (pure.a.op = pure.b.op /\ pure.a # pure.b /\ Supplied(pure.a) /\ Supplied(pure.b)
          => pure.keyA # pure.keyB)

\* C7: while the entry stored by a successful getCurrentRace fetch is younger
\* than 60 s, every getCurrentRace invocation returns the stored value with no
\* upstream GET; once it has expired the next invocation issues a GET; and no
\* invocation is answered from an entry older than its TTL.
C7_FreshnessWindow ==
  [][\A i \in Procs :
       /\ (Starts(i) /\ inv'[i].req.op = "getCurrentRace" /\ CacheHas(cache, sCurrentLast)) =>
            /\ cache[sCurrentLast].ttl = 60
            /\ (cache[sCurrentLast].age < 60 =>
                  inv'[i].gets = 0 /\ inv'[i].result = Value(cache[sCurrentLast].v))
            /\ (Expired(cache[sCurrentLast]) => inv'[i].gets = 1)
       /\ (Starts(i) /\ IsGateway(i)' /\ inv'[i].pc = "done") =>
            /\ CacheHas(cache, KeyOf(i)')
            /\ cache[KeyOf(i)'].age <= cache[KeyOf(i)'].ttl]_vars

\* the shapes of a normalised error
UpstreamForm(e, f) ==
  /\ f.status = e.status
  /\ f.status.t = "num"
  /\ f.code = (IF e.bodyCode \in {Undefined, ""} THEN "API_ERROR" ELSE e.bodyCode)
  /\ f.message = (IF e.bodyMessage \in {Undefined, ""} THEN "F1 API request failed"
                  ELSE e.bodyMessage)
NetworkForm(f) ==
  /\ f.message = "Jolpica F1 API service unavailable"
  /\ f.code = "NETWORK_ERROR"
  /\ f.status = Undef

\* C8: an error with a response is normalised to the response's status, the
\* body's error.code (default API_ERROR) and the body's error.message (default
\* 'F1 API request failed'); an error with a request but no response becomes
\* the fixed NETWORK_ERROR error without status; any other error keeps its
\* message; each error falls under exactly one of the three.
C8_FailureClassification ==
  pure.stage = "formatted" =>
    LET e == pure.error
        f == pure.formatted
    IN /\ (e.hasResponse => UpstreamForm(e, f) /\ ~NetworkForm(f))
       /\ (~e.hasResponse /\ e.hasRequest => NetworkForm(f))
       /\ (~e.hasResponse /\ ~e.hasRequest =>
             f.message = e.message /\ f.code = e.code /\ ~NetworkForm(f))

C8_Witness ==
  /\ pure.stage = "formatted"
  /\ pure.error = HttpError(404, "Not Found", "NOT_FOUND")
  /\ pure.formatted = [message |-> "Not Found", status |-> Num(404), code |-> "NOT_FOUND"]

\* C9: an invocation whose upstream GET failed fails with the normalised error
\* the upstream client produced: same message, code and status, and no value.
C9_ErrorsPropagateUnchanged ==
  \A i \in Procs :
    (IsGateway(i) /\ inv[i].pc = "done" /\ inv[i].gets = 1 /\ ~inv[i].up.ok) =>
      inv[i].result = Thrown(inv[i].up.err)

C9_Witness ==
  \E i \in Procs :
    /\ IsGateway(i)
    /\ inv[i].pc = "done"
    /\ ~inv[i].up.ok
    /\ inv[i].result.kind = "error"
    /\ inv[i].result.err =
         [message |-> "F1 API request failed", status |-> Num(503), code |-> "API_ERROR"]

\* C10: healthCheck() always completes with a boolean, which is true exactly
\* when the upstream answered with a 2xx.
C10_HealthCheckIs2xx ==
  \A i \in Procs :
    (inv[i].req.op = "healthCheck" /\ inv[i].pc = "done") =>
      (inv[i].result.kind = "bool" /\ (inv[i].result.b <=> inv[i].up.ok))

\* C11: a step of clearCache() leaves the cache without any entry, whatever
\* entries, fresh or expired, it held before.
C11_ClearCacheDiscardsAll ==
  [][ClearCache => DOMAIN cache' = {}]_vars

C11_Witness ==
  /\ DOMAIN cache = {}
  /\ ticks = 0
  /\ \E i \in Procs : IsGateway(i) /\ inv[i].pc = "done" /\ inv[i].sets = 1

\* invocation j for the same key as invocation i also missed and went upstream
MissedWith(i, j) ==
  /\ i # j
  /\ IsGateway(i) /\ IsGateway(j)
  /\ inv[i].endpoint = inv[j].endpoint
  /\ ~inv[i].found /\ ~inv[j].found
  /\ inv[j].pc \in {"awaiting", "done"}
  /\ inv[j].gets = 1

\* C12: invocations that missed on the same key each issue their own upstream
\* GET, each can settle whatever the state of the others, and each successful
\* settlement replaces the key's entry by a whole entry with its own body (so
\* the entry left is that of the last successful fetch) while a failed one
\* leaves the cache alone.
C12_ConcurrentMissesLastWriteWins ==
  [][\A i \in Procs :
       /\ (inv[i].pc = "awaiting" /\ \E j \in Procs : MissedWith(i, j)) =>
            /\ inv[i].gets = 1
            /\ \A o \in Outcomes : ENABLED Respond(i, o)
       /\ (Settles(i) /\ \E j \in Procs : MissedWith(i, j)) =>
            /\ \A j \in Procs : MissedWith(i, j) => inv'[j] = inv[j]
            /\ (inv'[i].up.ok =>
                  /\ inv'[i].result = Value(inv'[i].up.body)
                  /\ cache'[KeyOf(i)] =
                       [v |-> inv'[i].up.body, ttl |-> getCacheTTL(inv[i].endpoint),
                        age |-> 0])
            /\ (~inv'[i].up.ok =>
                  cache' = cache /\ inv'[i].result = Thrown(inv'[i].up.err))]_vars

C12_Witness ==
  \E i \in Procs, j \in Procs :
    /\ MissedWith(i, j)
    /\ inv[i].pc = "done" /\ inv[j].pc = "done"
    /\ inv[i].up.ok /\ inv[j].up.ok
    /\ inv[i].up.body # inv[j].up.body
    /\ CacheHas(cache, KeyOf(i))
    /\ cache[KeyOf(i)].v = inv[i].up.body
    /\ cache[KeyOf(i)].age = 0

\* C13: a gateway invocation makes one cache lookup and at most one upstream
\* GET; one whose GET failed has ended with the error after that single GET.
C13_AtMostOneLookupOneCall ==
  \A i \in Procs :
    IsGateway(i) =>
      /\ inv[i].lookups = 1
      /\ inv[i].gets <= 1
      /\ (inv[i].gets = 1 /\ inv[i].up # NoUpstream /\ ~inv[i].up.ok =>
            inv[i].pc = "done" /\ inv[i].result.kind = "error")

C13_Witness ==
  \E i \in Procs :
    /\ IsGateway(i)
    /\ inv[i].pc = "done"
    /\ inv[i].lookups = 1
    /\ inv[i].gets = 1
    /\ ~inv[i].up.ok
    /\ inv[i].result.kind = "error"

\* the state of key k in cache c
KeyState(c, k) ==
  IF ~CacheHas(c, k) THEN "Absent" ELSE IF Expired(c[k]) THEN "Expired" ELSE "Fresh"

\* C14: a key becomes Fresh only from Absent or Expired and only when an
\* invocation for it receives a 2xx (the entry then counts its expiry from the
\* store); it goes from Fresh to Expired only when the clock advances; it
\* becomes Absent from Expired by eviction (a lookup of that key or the
\* periodic check) or by clearCache, and from Fresh only by clearCache; a
\* failed fetch changes no key's state; no cause depends on the stored value.
C14_PerKeyStateMachine ==
  [][/\ \A k \in (DOMAIN cache) \cup (DOMAIN cache') :
          LET from == KeyState(cache, k)
              to == KeyState(cache', k)
          IN from # to =>
               \/ /\ to = "Fresh"
                  /\ from \in {"Absent", "Expired"}
                  /\ cache'[k].age = 0
                  /\ \E i \in Procs :
                       IsGateway(i) /\ Settles(i) /\ KeyOf(i) = k /\ inv'[i].up.ok
               \/ /\ from = "Fresh"
                  /\ to = "Expired"
                  /\ ticks' = ticks + 1
                  /\ inv' = inv
                  /\ cache'[k].v = cache[k].v
               \/ /\ from = "Expired"
                  /\ to = "Absent"
                  /\ ticks' = ticks
                  /\ \/ inv' = inv
                     \/ \E i \in Procs : Starts(i) /\ IsGateway(i)' /\ KeyOf(i)' = k
               \/ /\ from = "Fresh"
                  /\ to = "Absent"
                  /\ ClearCache
     /\ \A i \in Procs :
          (IsGateway(i) /\ Settles(i) /\ ~inv'[i].up.ok) =>
            \A k \in (DOMAIN cache) \cup (DOMAIN cache') :
              KeyState(cache', k) = KeyState(cache, k)]_vars

C14_Witness ==
  \E i \in Procs :
    /\ IsGateway(i)
    /\ inv[i].pc = "done"
    /\ inv[i].up.ok
    /\ inv[i].sets = 1
    /\ CacheHas(cache, KeyOf(i))
    /\ Expired(cache[KeyOf(i)])
    /\ cache[KeyOf(i)].v = inv[i].up.body

\* what formatError makes of an error with a request and no response
NetworkError ==
  [message |-> "Jolpica F1 API service unavailable", status |-> Undef,
   code |-> "NETWORK_ERROR"]

\* C15: every gateway invocation that awaits the upstream eventually ends,
\* with the fetched value or with the normalised error of its GET; when the
\* GET runs into the client's timeout the invocation ends with the
\* NETWORK_ERROR error.
C15_NoInvocationHangs ==
  /\ \A i \in Procs :
       (IsGateway(i) /\ inv[i].pc = "awaiting") ~>
         (/\ inv[i].pc = "done"
          /\ \/ inv[i].result = Value(inv[i].up.body) /\ inv[i].up.ok
             \/ inv[i].result = Thrown(inv[i].up.err) /\ ~inv[i].up.ok)
  /\ [][\A i \in Procs :
          (IsGateway(i) /\ Respond(i, Fail(TimeoutError))) =>
            (inv'[i].pc = "done" /\ inv'[i].result = Thrown(NetworkError))]_vars

C15_Witness ==
  \E i \in Procs :
    /\ IsGateway(i)
    /\ inv[i].pc = "done"
    /\ inv[i].gets = 1
    /\ inv[i].result = Thrown(NetworkError)

\* the gateway operations that take a season
SeasonOps ==
  {"getRaces", "getRace", "getDrivers", "getDriver", "getConstructors", "getConstructor",
   "getRaceResults", "getQualifyingResults", "getDriverStandings",
   "getConstructorStandings"}
\* the path has the literal "current" as its first segment
CurrentInSeasonPosition(path) ==
  /\ Len(path) >= 9
  /\ SubSeq(path, 1, 8) = sSlash \o sCurrent
  /\ path[9] \in {"/", "."}

\* C16: a gateway operation that takes a season and is invoked without one
\* resolves a path, and so a cache key, whose season segment is "current".
C16_SeasonDefaulting ==
  (pure.stage \in {"resolved", "classified"} /\ pure.a.op \in SeasonOps
     /\ pure.a.season = Undef) =>
    CurrentInSeasonPosition(pure.keyA)

\* a return value that is the body itself
RawDocument(body) == [NoReturn EXCEPT !.t = "body", !.body = body]

\* C17: a gateway operation that has ended either returned the body of the
\* upstream response as it is (the body just fetched on a miss, the stored one
\* on a hit) or threw the normalised error of its GET and returned nothing.
C17_ReturnsRawBody ==
  \A i \in Procs :
    (IsGateway(i) /\ inv[i].pc = "done") =>
      \/ /\ inv[i].gets = 0
         /\ Returned(inv[i]) = RawDocument(inv[i].foundV)
      \/ /\ inv[i].gets = 1 /\ inv[i].up.ok
         /\ Returned(inv[i]) = RawDocument(inv[i].up.body)
      \/ /\ inv[i].gets = 1 /\ ~inv[i].up.ok
         /\ inv[i].result = Thrown(inv[i].up.err)
         /\ Returned(inv[i]) = NoReturn

\* C18: once start() has got the result of its health check, the process is
\* running with its transport open (the web service when DEPLOY_MODE is web,
\* stdio otherwise) if the check was true or NODE_ENV is production, and has
\* exited with code 1 with no transport opened in every other case.
C18_StartupPolicy ==
  server.phase \in {"running", "exited"} =>
    IF server.apiAvailable \/ server.nodeEnv = "production"
    THEN /\ server.phase = "running"
         /\ server.transport = (IF server.deployMode = "web" THEN "http" ELSE "stdio")
         /\ server.exitCode = NoExit
    ELSE /\ server.phase = "exited"
         /\ server.exitCode = 1
         /\ server.transport = "none"

C18_Witness ==
  /\ server.phase = "exited"
  /\ server.nodeEnv = "development"
  /\ ~server.apiAvailable
  /\ server.exitCode = 1
  /\ server.transport = "none"

\* C19: a running server keeps running at every step; a tool invocation whose
\* upstream GET fails ends with the handler's envelope { success: false,
\* error: { message, code } }, isError true, carrying the normalised error's
\* message and code; a health ping ends with a boolean and leaves the process
\* as it is.
C19_NoUpstreamFailureIsFatal ==
  [][/\ server.phase = "running" => server'.phase = "running"
     /\ \A i \in Procs :
          (Settles(i) /\ inv[i].tool.name # "none" /\ ~inv'[i].up.ok) =>
            /\ Envelope(inv'[i]).t = "envelope"
            /\ Envelope(inv'[i]).isError
            /\ ~Envelope(inv'[i]).success
            /\ Envelope(inv'[i]).message = inv'[i].up.err.message
            /\ Envelope(inv'[i]).code = inv'[i].up.err.code
            /\ Envelope(inv'[i]).code \notin {Undefined, ""}
     /\ \A i \in Procs :
          (Settles(i) /\ inv[i].req.op = "healthCheck") =>
            (inv'[i].result.kind = "bool" /\ server' = server)]_vars

C19_Witness ==
  \E i \in Procs :
    /\ inv[i].tool.name = "get_f1_races"
    /\ inv[i].pc = "done"
    /\ inv[i].gets = 1
    /\ ~inv[i].up.ok
    /\ Envelope(inv[i]).isError
    /\ Envelope(inv[i]).code = "NETWORK_ERROR"
    /\ server.phase = "running"

\* the request carries no round, driverId or constructorId for a tool that requires it
LacksRequired(q) ==
  \/ /\ q.name \in {"get_f1_race_details", "get_f1_race_results",
                     "get_f1_qualifying_results"}
     /\ q.round = Undef /\ q.arguments.round = Undef
  \/ /\ q.name \in {"get_f1_driver_details", "get_f1_constructor_details"}
     /\ q.id = Undef /\ q.arguments.id = Undef

\* C20: a tool invocation that lacks its required argument ends in the step
\* that starts it, with an error envelope, without a cache lookup, an upstream
\* GET or a cache.set, and with the cache as it was.
C20_MalformedInputRejected ==
  [][\A i \in Procs :
       (Starts(i) /\ LacksRequired(inv'[i].tool)) =>
         /\ cache' = cache
         /\ inv'[i].pc = "done"
         /\ inv'[i].lookups = 0
         /\ inv'[i].gets = 0
         /\ inv'[i].sets = 0
         /\ Envelope(inv'[i]).t = "envelope"
         /\ Envelope(inv'[i]).isError
         /\ ~Envelope(inv'[i]).success]_vars

C20_Witness ==
  \E i \in Procs :
    /\ inv[i].tool.name = "get_f1_race_details"
    /\ LacksRequired(inv[i].tool)
    /\ inv[i].pc = "done"
    /\ inv[i].gets = 0
    /\ Envelope(inv[i]).message = "Round number is required"
    /\ Envelope(inv[i]).code = "RACE_DETAILS_ERROR"
    /\ DOMAIN cache # {}

\* the invocation names a season other than 'current'
NamesSeason(r) == r.season # Undef /\ r.season # Str(sCurrent)

\* C23: a successful getDriverStandings(S) or getConstructorStandings(S) for
\* a season S other than 'current' stores its entry with a TTL of 300 seconds.
C23_StandingsCachedFiveMinutes ==
  [][\A i \in Procs :
       (/\ Settles(i)
        /\ inv[i].req.op \in {"getDriverStandings", "getConstructorStandings"}
        /\ NamesSeason(inv[i].req)
        /\ inv'[i].up.ok) =>
         /\ CacheHas(cache', KeyOf(i))
         /\ cache'[KeyOf(i)].ttl = 300]_vars

\* C24: a successful getRaceResults(S, R) or getQualifyingResults(S, R) for a
\* season S other than 'current' stores its entry with a TTL of 300 seconds.
C24_ResultsCachedFiveMinutes ==
  [][\A i \in Procs :
       (/\ Settles(i)
        /\ inv[i].req.op \in {"getRaceResults", "getQualifyingResults"}
        /\ NamesSeason(inv[i].req)
        /\ inv'[i].up.ok) =>
         /\ CacheHas(cache', KeyOf(i))
         /\ cache'[KeyOf(i)].ttl = 300]_vars

\* invocation j fetched and stored the value that the invocation starting in
\* slot i is served from the cache
WroteFor(j, i) ==
  /\ inv[j].pc = "done"
  /\ inv[j].sets = 1
  /\ inv[j].endpoint = inv'[i].endpoint
  /\ Value(inv[j].up.body) = inv'[i].result

\* C25: an invocation that starts after clearCache() has returned is not
\* served a value whose upstream GET was issued before the clear, also when
\* that GET was pending at the moment of the clear.
C25_ForcedRefresh ==
  [][\A i \in Procs :
       (Starts(i) /\ IsGateway(i)' /\ inv'[i].pc = "done") =>
         ~ /\ \E j \in Procs : WroteFor(j, i)
           /\ \A j \in Procs : WroteFor(j, i) => inv[j].cleared]_vars

\* getCurrentSeason(), and getRaces() with the season omitted or 'current'
OfCurrentSeason(r) ==
  \/ r.op = "getCurrentSeason"
  \/ r.op = "getRaces" /\ r.season \in {Undef, Str(sCurrent)}

\* C29: when one of getCurrentSeason() and getRaces() (season omitted or
\* 'current') has fetched and stored its document, both had the key
\* /current.json, and an invocation of the other that starts while that entry
\* has not expired is a hit: it returns the stored document with no upstream GET.
C29_SamePathSharesEntry ==
  [][\A i, j \in Procs :
       (/\ Starts(i)
        /\ OfCurrentSeason(inv'[i].req)
        /\ inv[j].pc = "done" /\ inv[j].sets = 1
        /\ OfCurrentSeason(inv[j].req)
        /\ inv[j].req.op # inv'[i].req.op
        /\ CacheFresh(cache, KeyOf(j))) =>
         /\ KeyOf(j) = sCurrentJson
         /\ KeyOf(i)' = sCurrentJson
         /\ inv'[i].pc = "done"
         /\ inv'[i].gets = 0
         /\ inv'[i].result = Value(cache[sCurrentJson].v)]_vars

\* C27: a step of healthCheck() or of getCacheStats() leaves every cache entry
\* as it was (none added, removed, replaced or re-timed), so that every key
\* is a hit after the step exactly if it was one before; healthCheck() makes
\* no cache lookup and issues its upstream GET.
C27_ReadOnlyOperations ==
  [][\A i \in Procs :
       /\ ((Starts(i) /\ inv'[i].req.op \in {"healthCheck", "getCacheStats"})
            \/ (Settles(i) /\ inv[i].req.op = "healthCheck")) =>
             /\ cache' = cache
             /\ \A r \in Requests :
                  IsHit(CacheGet(cache', CacheKey(Endpoint(r))))
                    = IsHit(CacheGet(cache, CacheKey(Endpoint(r))))
             /\ inv'[i].lookups = 0
             /\ inv'[i].sets = 0
       /\ (Starts(i) /\ inv'[i].req.op = "healthCheck") =>
             (inv'[i].pc = "awaiting" /\ inv'[i].gets = 1)]_vars

C27_Witness ==
  \E i, j \in Procs :
    /\ inv[i].req.op = "healthCheck"
    /\ inv[i].pc = "done"
    /\ inv[i].up.ok
    /\ inv[i].gets = 1
    /\ inv[i].lookups = 0
    /\ IsGateway(j)
    /\ CacheFresh(cache, KeyOf(j))
    /\ ~CacheHas(cache, sSeasonsJson)

\* C28: a step of a gateway invocation for key K (the lookup with a hit or a
\* miss, the store after a successful GET, the failure of the GET) leaves
\* every entry under another key in place with its value and expiry.
C28_KeyIsolation ==
  [][\A i \in Procs :
       ((Starts(i) /\ IsGateway(i)') \/ (Settles(i) /\ IsGateway(i))) =>
         \A k \in ((DOMAIN cache) \cup (DOMAIN cache')) \ {KeyOf(i)'} :
           /\ CacheHas(cache, k)
           /\ CacheHas(cache', k)
           /\ cache'[k] = cache[k]]_vars

C28_Witness ==
  \E i \in Procs, k \in DOMAIN cache :
    /\ IsGateway(i)
    /\ inv[i].pc = "done"
    /\ inv[i].sets = 1
    /\ k # KeyOf(i)
    /\ Expired(cache[k])
    /\ CacheHas(cache, KeyOf(i))
    /\ cache[KeyOf(i)].age = 0

\* the call in slot i was made through one of the server's two dispatchers
Dispatched(i) == inv[i].pc # "idle" /\ inv[i].tool.via \in {"mcp", "http"}

\* the gateway operation of the same category, by tool name
SameCategoryOp ==
  [n \in ReadmeTools |->
     CASE n = "get_f1_seasons" -> "getSeasons"
       [] n = "get_current_f1_season" -> "getCurrentSeason"
       [] n = "get_f1_races" -> "getRaces"
       [] n = "get_f1_race_details" -> "getRace"
       [] n = "get_current_f1_race" -> "getCurrentRace"
       [] n = "get_next_f1_race" -> "getNextRace"
       [] n = "get_f1_drivers" -> "getDrivers"
       [] n = "get_f1_driver_details" -> "getDriver"
       [] n = "get_f1_constructors" -> "getConstructors"
       [] n = "get_f1_constructor_details" -> "getConstructor"
       [] n = "get_f1_race_results" -> "getRaceResults"
       [] n = "get_f1_qualifying_results" -> "getQualifyingResults"
       [] n = "get_f1_driver_standings" -> "getDriverStandings"
       [] n = "get_f1_constructor_standings" -> "getConstructorStandings"]

\* C21: the names GET /tools lists and the names of the README are the 14
\* names the dispatchers resolve; a dispatched call of a name outside them
\* reaches no gateway operation; a dispatched call of one of them makes at
\* most one gateway call, of the operation of the same category, and does
\* make it unless its required argument was not supplied, so that each of the
\* 14 gateway operations is called through some tool.
C21_CatalogComplete ==
  /\ ReadmeTools = AllTools
  /\ Cardinality(AllTools) = 14
  /\ {ToolOp(n) : n \in AllTools} = Ops
  /\ server.listed.asked =>
       (server.listed.tools = AllTools /\ server.listed.totalTools = Cardinality(AllTools))
  /\ \A i \in Procs :
       Dispatched(i) =>
         /\ inv[i].lookups <= 1
         /\ inv[i].gets <= 1
         /\ inv[i].tool.name \notin AllTools => inv[i].req.op = "none"
         /\ inv[i].tool.name \in AllTools =>
              \/ inv[i].req.op = SameCategoryOp[inv[i].tool.name]
              \/ inv[i].req.op = "none" /\ LacksRequired(inv[i].tool)

\* C22: a tool called through the tools/call handler or POST /tools/invoke
\* with season, round, driverId or constructorId among its arguments calls
\* its gateway operation with those values.
C22_ArgumentsReachGateway ==
  \A i \in Procs :
    (Dispatched(i) /\ inv[i].tool.name \in AllTools) =>
      LET name == inv[i].tool.name
          supplied == inv[i].tool.arguments
      IN /\ (name \notin NoArgTools /\ supplied.season # Undef) =>
              (inv[i].req.op = ToolOp(name) /\ inv[i].req.season = supplied.season)
         /\ (name \in RoundTools /\ supplied.round # Undef) =>
              (inv[i].req.op = ToolOp(name) /\ inv[i].req.round = supplied.round)
         /\ (name \in IdTools /\ supplied.id # Undef) =>
              (inv[i].req.op = ToolOp(name) /\ inv[i].req.id = supplied.id)

\* C26: when GET /health has answered apiAvailable: true, the healthCheck()
\* awaited by start() had returned true.
C26_HealthReportsStartupCheck ==
  (server.health.asked /\ server.health.apiAvailable) => server.apiAvailable

\* C30: POST /tools/invoke answers 200 with success: true for every
\* registered tool name, the handler's error envelope included in the result;
\* it answers 400 exactly when the name is missing, 404 exactly when a name
\* is given that is not registered, and 500 only when the handler threw.
C30_InvokeStatusCodes ==
  \A i \in Procs :
    (inv[i].tool.via = "http" /\ inv[i].pc = "done") =>
      LET name == inv[i].tool.name
          reply == HttpReply(inv[i])
      IN /\ name \in AllTools =>
              /\ reply.status = 200
              /\ reply.success
              /\ reply.result = Envelope(inv[i])
              /\ reply.result.t = "envelope"
         /\ reply.status = 400 <=> name \in {Undefined, ""}
         /\ reply.status = 404 <=> (name \notin {Undefined, ""} /\ name \notin AllTools)
         /\ reply.status = 500 => Envelope(inv[i]).t = "none"
         /\ reply.status # 200 => ~reply.success

C30_Witness ==
  \E i, j \in Procs :
    /\ inv[i].tool.via = "http"
    /\ inv[i].tool.name = "get_f1_races"
    /\ inv[i].pc = "done"
    /\ ~inv[i].up.ok
    /\ Envelope(inv[i]).isError
    /\ ~Envelope(inv[i]).success
    /\ HttpReply(inv[i]).status = 200
    /\ HttpReply(inv[i]).success
    /\ inv[j].tool.via = "http"
    /\ inv[j].pc = "done"
    /\ HttpReply(inv[j]).status = 404

====
